---- MODULE Spec2Model ----
(***************************************************************************)
(* A model of js/flowchart.js: the FlowchartConnector class, which draws    *)
(* arrows between flowchart elements on a canvas, its debounced window      *)
(* resize listener, and the host page it reads (element lookup, bounding    *)
(* boxes, root style variables, device pixel ratio); and the slide deck     *)
(* script of the same file: slide navigation by buttons, keys, swipes and   *)
(* edge clicks, and the timers that show and hide the navigation controls.  *)
(*                                                                          *)
(* Lengths are CSS pixels.  Ratios (the device pixel ratio, the context's   *)
(* scale) and the coordinates the renderer computes are exact fractions     *)
(* <<numerator, denominator>> in lowest terms.  A JS string                 *)
(* that the code inspects (a color token, a computed style value) is the    *)
(* sequence of its lexemes, e.g. <<"var(", "--link-color", ")">>.           *)
(***************************************************************************)
EXTENDS Integers, Sequences, FiniteSets, TLC

VARIABLES
    canvasEl,        \* document.getElementById(canvasId) finds an element
    flowchartEl,     \* document.getElementById(flowchartId) finds an element
    ctorArg,         \* the connectionType argument given to the constructor
    absent,          \* ids of flowchart elements missing from the document
    layout,          \* the host page's current layout: the box of every node
    dpr,             \* window.devicePixelRatio, <<0, 1>> when unavailable
    theme,           \* the root element's style: "light", "dark", or "unstyled"
                     \* when no style variable is registered
    status,          \* "unbuilt", "inert" (ctor returned early), "threw", "live"
    connectionType,  \* this.connectionType
    lineColor,       \* this.lineColor
    canvas,          \* this.canvas: width, height, style and bitmap
    ctx,             \* this.ctx: the 2d context's drawing state
    calls,           \* the drawArrow calls of the latest drawConnections pass
    timers,          \* pending setTimeout timers: records [id, age]
    resizeTimeout,   \* the closure variable resizeTimeout (0: undefined)
    burst,           \* resize events dispatched in the current burst
    passes,          \* debounced passes run since the latest resize event
    inSync,          \* no layout or ratio change since the latest resizeCanvas
    op,              \* the latest step
    rep,             \* how many times in a row op was called directly
    returned,        \* what the latest direct call of a method returned
    nSlides,         \* how many .slide elements the document holds
    rtlMode,         \* the root element carries the class rtl-mode
    slides,          \* the script's slides is set (TRUE) or still undefined
    totalSlides,     \* <<>> while undefined, <<n>> once it is the number n
    slideshowContainer, \* the script's slideshowContainer is set
    isRTL,           \* the script's isRTL (undefined counts as FALSE)
    currentSlide,    \* the script's currentSlide
    active,          \* indices of the slides that carry the class active
    currentSlideText,\* textContent of #current-slide
    prevDisabled,    \* #prev-btn.disabled
    nextDisabled,    \* #next-btn.disabled
    touchStartX, touchStartY, touchEndX, touchEndY,
    called,          \* the navigation functions the latest handler called
    input,           \* the arguments or the event the latest handler was given
    savedMode,       \* localStorage's mode item ('light' when there is none)
    navControls,     \* the document holds a .navigation-controls element
    isTouchDevice,   \* 'ontouchstart' in window || navigator.maxTouchPoints > 0
    navReady,        \* handleNavigationVisibility has run
    navVisible,      \* the navigation controls carry the class visible
    hideTimer,       \* handleNavigationVisibility's hideTimer (0: null)
    navTimers,       \* pending timers of the navigation: [id, kind, left]
    shown,           \* showNavigation ran and hideNavigation was not called since
    question,        \* the markup of a .question element of the document
    quizReady,       \* the options have their click listeners
    correctAnswer,   \* the listener's correctAnswer, a string of 0 or 1 letters
    optionLetter,    \* the listeners' optionLetter, one for each option
    optionClass,     \* which of correct and incorrect each option carries
    answerShown,     \* the answer box carries the class show
    buttonText       \* textContent of the show-answer button

\* the slide deck: its document and the script's variables
slideVars == <<nSlides, rtlMode, savedMode, slides, totalSlides, slideshowContainer, isRTL,
               currentSlide, active, currentSlideText, prevDisabled, nextDisabled,
               touchStartX, touchStartY, touchEndX, touchEndY, called, input>>

\* the navigation controls and their timers
navVars == <<navControls, isTouchDevice, navReady, navVisible, hideTimer, navTimers,
             shown>>

\* a question of the quiz and what its listeners keep
quizVars == <<question, quizReady, correctAnswer, optionLetter, optionClass,
              answerShown, buttonText>>

appVars == <<slideVars, navVars, quizVars>>

\* the flowchart connector and what it drew
connectorVars == <<status, connectionType, lineColor, canvas, ctx, calls, timers,
                   resizeTimeout, burst, passes, inSync, returned>>

vars == <<canvasEl, flowchartEl, ctorArg, absent, layout, dpr, theme, status,
          connectionType, lineColor, canvas, ctx, calls, timers, resizeTimeout,
          burst, passes, inSync, op, rep, returned, appVars>>

envVars == <<canvasEl, flowchartEl, ctorArg, absent, layout, dpr, theme>>

-----------------------------------------------------------------------------
(* Bounds of the model *)

MaxLayout == 1      \* layouts 0..MaxLayout
MaxAbsent == 2      \* at most this many elements are missing at a time
MaxBurst == 3       \* resize events in one burst
MaxRep == 2         \* direct calls of one method in a row
MaxDepth == 4       \* paint layers on one pixel before direct redraws stop
TickMs == 50        \* how far one clock step advances the timers
MaxSlides == 3      \* decks of 1..MaxSlides slides
MaxOptions == 3     \* options of a question
MaxNavTimers == 3   \* pending timers of the navigation controls
NavTickMs == 500    \* how far one clock step advances the navigation's timers

(* Program constants *)

DebounceMs == 100
LineWidth == 3
ArrowSize == 8
MinSwipeDistance == 80
threshold == 150
HideMargin == 100
HideDelayMouse == 500
HideDelayTouch == 3000
ClickHideDelay == 500
LoadHideDelay == 2000

-----------------------------------------------------------------------------
(* Exact arithmetic *)

RECURSIVE Gcd(_, _)
Gcd(a, b) == IF b = 0 THEN a ELSE Gcd(b, a % b)

Norm(q) == LET g == Gcd(q[1], q[2]) IN <<q[1] \div g, q[2] \div g>>

Mul(p, q) == Norm(<<p[1] * q[1], p[2] * q[2]>>)

\* ToUint32 of the product n * q: the fractional part is dropped
Trunc(n, q) == (n * q[1]) \div q[2]

Ceil(n, q) == (n * q[1] + q[2] - 1) \div q[2]

Min(a, b) == IF a < b THEN a ELSE b

\* the sum a + n / d of JS numbers, exactly
Plus(a, n, d) == Norm(<<a[1] * d + n * a[2], a[2] * d>>)

\* a whole JS number
Num(n) == <<n, 1>>

-----------------------------------------------------------------------------
(* The host page *)

DprValues == {<<0, 1>>, <<1, 2>>, <<1, 1>>, <<5, 4>>}

Themes == {"light", "dark", "unstyled"}

TypeArgs == {"undefined", "default", "hachzarah", "other"}

Column ==
    [question1 |-> 1, question2 |-> 2, question3 |-> 3,
     question1c |-> 1, question2c |-> 2, question3c |-> 3,
     question4c |-> 4, question5c |-> 5, question6c |-> 6]

AnswerOf ==
    ("q1-yes" :> <<1, 0>>) @@ ("q1-no" :> <<1, 1>>) @@ ("q2-yes" :> <<2, 0>>) @@
    ("q2-no" :> <<2, 1>>) @@ ("q3-yes" :> <<3, 0>>) @@ ("q3-no" :> <<3, 1>>) @@
    ("q1c-yes" :> <<1, 0>>) @@ ("q1c-no" :> <<1, 1>>) @@ ("q2c-yes" :> <<2, 0>>) @@
    ("q2c-no" :> <<2, 1>>) @@ ("q3c-yes" :> <<3, 0>>) @@ ("q3c-no" :> <<3, 1>>) @@
    ("q4c-yes" :> <<4, 0>>) @@ ("q4c-no" :> <<4, 1>>) @@ ("q5c-yes" :> <<5, 0>>) @@
    ("q5c-no" :> <<5, 1>>) @@ ("q6c-yes" :> <<6, 0>>) @@ ("q6c-maybe" :> <<6, 1>>)

Ids == DOMAIN Column \cup DOMAIN AnswerOf

\* the bounding boxes of the flowchart page in its n-th layout
PageLayout(n) ==
    LET c == [left |-> 80, top |-> 30 + 10 * n,
              width |-> 150 + 50 * n, height |-> 90 + 20 * n]
    IN  [container |-> c,
         element |->
             [id \in Ids |->
                 IF id \in DOMAIN Column
                 THEN [left |-> c.left + 24 * (Column[id] - 1) + 4 * n,
                       top |-> c.top + 10, width |-> 16, height |-> 20]
                 ELSE [left |-> c.left + 24 * (AnswerOf[id][1] - 1)
                                   + 12 * AnswerOf[id][2] + 2 * n,
                       top |-> c.top + 60 + 10 * n, width |-> 8, height |-> 12]]]

Layouts == {PageLayout(n) : n \in 0..MaxLayout}

\* boxes the layout engine may report for one more element, "probe", and
\* for the container's corner
ProbeLefts == {60, 100}
ProbeTops == {50}
ProbeWidths == {7, 40}
ProbeHeights == {5, 20}
ContainerLefts == {80}
ContainerTops == {0, 30}

\* the flowchart page with the element "probe" in it
ProbeLayouts ==
    {[container |-> [PageLayout(0).container EXCEPT !.left = cl, !.top = ct],
      element |-> PageLayout(0).element @@
                  ("probe" :> [left |-> x, top |-> y, width |-> w, height |-> h])] :
        x \in ProbeLefts, y \in ProbeTops, w \in ProbeWidths, h \in ProbeHeights,
        cl \in ContainerLefts, ct \in ContainerTops}

\* flowchart.getBoundingClientRect()
ContainerRect(l) == l.container

\* element.getBoundingClientRect() of the element with this id
ElementRect(id, l) ==
    LET box == l.element[id]
    IN  [left |-> box.left, top |-> box.top, width |-> box.width,
         height |-> box.height, bottom |-> box.top + box.height]

\* document.getElementById(id) for a flowchart element
GetElementById(id, abs) == id \notin abs

\* getComputedStyle(document.documentElement).getPropertyValue(name)
\* the style variables the themes' style sheets register on the root
StyleVariables ==
    {"--primary-color", "--category-gradient-start", "--category-error-start",
     "--link-color"}

\* a registered variable's value as the style sheet wrote it, after the
\* colon's space; the empty string for a variable that is not registered
GetPropertyValue(name, th) ==
    IF th = "unstyled" \/ name \notin StyleVariables THEN <<>>
    ELSE <<" ", name \o "@" \o th>>

RECURSIVE TrimLeft(_)
TrimLeft(s) == IF s # <<>> /\ Head(s) = " " THEN TrimLeft(Tail(s)) ELSE s

RECURSIVE TrimRight(_)
TrimRight(s) ==
    IF s # <<>> /\ s[Len(s)] = " " THEN TrimRight(SubSeq(s, 1, Len(s) - 1)) ELSE s

\* String.prototype.trim
Trim(s) == TrimRight(TrimLeft(s))

-----------------------------------------------------------------------------
(* The connection tables of drawConnections *)

Gradient == <<"var(", "--category-gradient-start", ")">>
ErrorStart == <<"var(", "--category-error-start", ")">>
LinkColor == <<"var(", "--link-color", ")">>
Orange == <<"#ed8936">>

Conn(f, t, c) == [from |-> f, to |-> t, color |-> c]

HachzarahConnections ==
    << Conn("question1c", "q1c-yes", Gradient), Conn("question1c", "q1c-no", ErrorStart),
       Conn("question2c", "q2c-yes", Gradient), Conn("question2c", "q2c-no", LinkColor),
       Conn("question3c", "q3c-yes", Gradient), Conn("question3c", "q3c-no", ErrorStart),
       Conn("question4c", "q4c-yes", Gradient), Conn("question4c", "q4c-no", ErrorStart),
       Conn("question5c", "q5c-yes", Gradient), Conn("question5c", "q5c-no", ErrorStart),
       Conn("question6c", "q6c-yes", Gradient), Conn("question6c", "q6c-maybe", Orange) >>

DefaultConnections ==
    << Conn("question1", "q1-yes", Gradient), Conn("question1", "q1-no", ErrorStart),
       Conn("question2", "q2-yes", Gradient), Conn("question2", "q2-no", ErrorStart),
       Conn("question3", "q3-yes", Gradient), Conn("question3", "q3-no", ErrorStart) >>

-----------------------------------------------------------------------------
(* The canvas element and its 2d context *)

NoPixels == [p \in {} |-> <<>>]

\* the state a 2d context is reset to
DefaultCtx ==
    [scale |-> <<1, 1>>, lineCap |-> "butt", lineJoin |-> "miter",
     strokeStyle |-> <<"#000000">>, fillStyle |-> <<"#000000">>, lineWidth |-> 1]

\* a canvas whose context survived a change of its bitmap's size
SetBitmapDimensionKeepCtx(S, field, v) ==
    [S EXCEPT !.canvas = [@ EXCEPT ![field] = v, !.pixels = NoPixels]]

\* canvas.width = v, canvas.height = v: the bitmap is replaced by a blank one
\* of the new size and the context is reset to its default state
SetBitmapDimension(S, field, v) ==
    [S EXCEPT !.canvas = [@ EXCEPT ![field] = v, !.pixels = NoPixels],
              !.ctx = DefaultCtx]

\* ctx.scale(x, x)
Scale(S, q) == [S EXCEPT !.ctx.scale = Mul(@, q)]

\* the bitmap pixel that the user-space point (x, y) falls on
DevicePixel(scale, x, y) ==
    <<(x[1] * scale[1]) \div (x[2] * scale[2]), (y[1] * scale[1]) \div (y[2] * scale[2])>>

InBitmap(cv, p) == p[1] >= 0 /\ p[1] < cv.width /\ p[2] >= 0 /\ p[2] < cv.height

\* ctx.clearRect(x, y, w, h): the rectangle is in user space, so it is
\* mapped through the current transform before pixels are erased
ClearRect(S, x, y, w, h) ==
    LET n == S.ctx.scale[1]
        d == S.ctx.scale[2]
        pix == S.canvas.pixels
        Hit(p) == /\ p[1] * d >= x * n /\ p[1] * d < (x + w) * n
                  /\ p[2] * d >= y * n /\ p[2] * d < (y + h) * n
    IN  [S EXCEPT !.canvas.pixels = [q \in {p \in DOMAIN pix : ~Hit(p)} |-> pix[q]]]

\* ctx.stroke() of the path moveTo(from), lineTo(to) and ctx.fill() of the
\* head at (toX, toY): the stroke covers both ends of the line, the filled
\* head covers its tip
Marks(arrow) ==
    << [x |-> arrow.fromX, y |-> arrow.fromY, color |-> arrow.strokeStyle],
       [x |-> arrow.toX, y |-> arrow.toY, color |-> arrow.strokeStyle],
       [x |-> arrow.toX, y |-> arrow.toY, color |-> arrow.fillStyle] >>

\* the context after these drawArrow calls, in this order: each mark adds a
\* layer of paint to the pixel under it (clipped to the bitmap), and the
\* styles are those the last call set
Paint(S, arrows) ==
    LET marks == [i \in 1..(3 * Len(arrows)) |->
                     Marks(arrows[(i + 2) \div 3].arrow)[((i - 1) % 3) + 1]]
        At(m) == DevicePixel(S.ctx.scale, m.x, m.y)
        pix == S.canvas.pixels
        hit == {At(marks[i]) : i \in DOMAIN marks}
        touched == {p \in hit : InBitmap(S.canvas, p)}
        New(p) == LET On(m) == At(m) = p
                      sel == SelectSeq(marks, On)
                  IN  [i \in 1..Len(sel) |-> sel[i].color]
        last == arrows[Len(arrows)].arrow
    IN  IF arrows = <<>> THEN S
        ELSE [S EXCEPT
                 !.canvas.pixels =
                     [p \in DOMAIN pix \cup touched |->
                         (IF p \in DOMAIN pix THEN pix[p] ELSE <<>>)
                         \o (IF p \in touched THEN New(p) ELSE <<>>)],
                 !.ctx.strokeStyle = last.strokeStyle,
                 !.ctx.fillStyle = last.fillStyle,
                 !.ctx.lineWidth = last.lineWidth]

-----------------------------------------------------------------------------
(* FlowchartConnector's methods.  S is the surface a method works on:      *)
(* [canvas, ctx, calls].                                                    *)

Null == [null |-> TRUE]

\* how a call ends: it returns a value or raises an error
Return(v) == [raised |-> FALSE, value |-> v]
Throw(name) == [raised |-> TRUE, value |-> <<name>>]

StartsWithVar(color) == color # <<>> /\ Head(color) = "var("

\* the lexemes that read as -- followed by characters other than )
DashedNames == StyleVariables \cup {"--no-such-color"}

\* color.match(/var\((--[^)]+)\)/): null, or the first place where "var(",
\* a dashed name and ")" follow one another, with the name as group 1
Match(color) ==
    LET hits == {i \in 1..(Len(color) - 2) :
                    /\ color[i] = "var("
                    /\ color[i + 1] \in DashedNames
                    /\ color[i + 2] = ")"}
        first == CHOOSE i \in hits : \A j \in hits : i <= j
    IN  IF hits = {} THEN Null ELSE [null |-> FALSE, group1 |-> color[first + 1]]

\* a resolveColor that kept the values it read when the page loaded
ResolveColorAtLoad(color, th) ==
    IF StartsWithVar(color)
    THEN IF Match(color).null
         THEN Throw("TypeError")
         ELSE Return(Trim(GetPropertyValue(Match(color).group1, "light")))
    ELSE Return(color)

\* match(...)[1] raises a TypeError when match returned null
ResolveColor(color, th) ==
    IF StartsWithVar(color)
    THEN IF Match(color).null
         THEN Throw("TypeError")
         ELSE Return(Trim(GetPropertyValue(Match(color).group1, th)))
    ELSE Return(color)

\* a renderer that ignored the device pixel ratio
PixelRatioOne(d) == <<1, 1>>

\* window.devicePixelRatio || 1
PixelRatio(d) == IF d[1] = 0 THEN <<1, 1>> ELSE d

\* a resizeCanvas that rounded the bitmap's size up
ResizeCanvasCeil(S, l, d) ==
    LET rect == ContainerRect(l)
        pixelRatio == PixelRatio(d)
        S1 == SetBitmapDimension(S, "width", Ceil(rect.width, pixelRatio))
        S2 == SetBitmapDimension(S1, "height", Ceil(rect.height, pixelRatio))
        S3 == [S2 EXCEPT !.canvas.styleWidth = <<rect.width, "px">>,
                         !.canvas.styleHeight = <<rect.height, "px">>]
        S4 == Scale(S3, pixelRatio)
    IN  [S4 EXCEPT !.ctx.lineCap = "round", !.ctx.lineJoin = "round"]

ResizeCanvas(S, l, d) ==
    LET rect == ContainerRect(l)
        pixelRatio == PixelRatio(d)
        S1 == SetBitmapDimension(S, "width", Trunc(rect.width, pixelRatio))
        S2 == SetBitmapDimension(S1, "height", Trunc(rect.height, pixelRatio))
        S3 == [S2 EXCEPT !.canvas.styleWidth = <<rect.width, "px">>,
                         !.canvas.styleHeight = <<rect.height, "px">>]
        S4 == Scale(S3, pixelRatio)
    IN  [S4 EXCEPT !.ctx.lineCap = "round", !.ctx.lineJoin = "round"]

GetElementCenter(id, l, abs) ==
    IF ~GetElementById(id, abs) THEN Null
    ELSE LET f == ContainerRect(l)
             e == ElementRect(id, l)
         IN  [x |-> Plus(Plus(Num(e.left), e.width, 2), -f.left, 1),
              y |-> Plus(Plus(Num(e.top), e.height, 2), -f.top, 1)]

\* a bottom anchor computed with the top anchor's y
GetElementBottomFromTop(id, l, abs) ==
    IF ~GetElementById(id, abs) THEN Null
    ELSE LET f == ContainerRect(l)
             e == ElementRect(id, l)
         IN  [x |-> Plus(Plus(Num(e.left), e.width, 2), -f.left, 1),
              y |-> Num(e.top - f.top)]

GetElementBottom(id, l, abs) ==
    IF ~GetElementById(id, abs) THEN Null
    ELSE LET f == ContainerRect(l)
             e == ElementRect(id, l)
         IN  [x |-> Plus(Plus(Num(e.left), e.width, 2), -f.left, 1),
              y |-> Num(e.bottom - f.top)]

GetElementTop(id, l, abs) ==
    IF ~GetElementById(id, abs) THEN Null
    ELSE LET f == ContainerRect(l)
             e == ElementRect(id, l)
         IN  [x |-> Plus(Plus(Num(e.left), e.width, 2), -f.left, 1),
              y |-> Num(e.top - f.top)]

\* the context calls of one drawArrow: the styles it sets, the line it
\* strokes and the head it fills
DrawArrow(fromX, fromY, toX, toY, color, th) ==
    LET resolvedColor == ResolveColor(color, th)
    IN  IF resolvedColor.raised THEN [raised |-> TRUE, error |-> resolvedColor.value]
        ELSE [raised |-> FALSE,
              strokeStyle |-> resolvedColor.value, fillStyle |-> resolvedColor.value,
              lineWidth |-> LineWidth,
              fromX |-> fromX, fromY |-> fromY, toX |-> toX, toY |-> toY,
              tip |-> <<toX, toY>>, size |-> ArrowSize]

\* a drawConnection that joined the two elements' centers
DrawConnectionCenters(fromElementId, toElementId, color, l, abs, th) ==
    LET fromPos == GetElementCenter(fromElementId, l, abs)
        toPos == GetElementCenter(toElementId, l, abs)
    IN  IF fromPos = Null \/ toPos = Null THEN <<>>
        ELSE << [from |-> fromElementId, to |-> toElementId, token |-> color,
                 arrow |-> DrawArrow(fromPos.x, fromPos.y, toPos.x, toPos.y, color, th)] >>

\* the drawArrow call this drawConnection makes, if it makes one
DrawConnection(fromElementId, toElementId, color, l, abs, th) ==
    LET fromPos == GetElementBottom(fromElementId, l, abs)
        toPos == GetElementTop(toElementId, l, abs)
    IN  IF fromPos = Null \/ toPos = Null THEN <<>>
        ELSE << [from |-> fromElementId, to |-> toElementId, token |-> color,
                 arrow |-> DrawArrow(fromPos.x, fromPos.y, toPos.x, toPos.y, color, th)] >>

\* a loop that a connection with a missing end stopped
RECURSIVE ForEachAbort(_, _, _, _)
ForEachAbort(connections, l, abs, th) ==
    IF connections = <<>> THEN <<>>
    ELSE LET made == DrawConnection(Head(connections).from, Head(connections).to,
                                    Head(connections).color, l, abs, th)
         IN  IF made = <<>> THEN <<>>
             ELSE made \o ForEachAbort(Tail(connections), l, abs, th)

\* connections.forEach(conn => this.drawConnection(conn.from, conn.to, conn.color))
\* (an error raised by a call ends the loop)
RECURSIVE ForEach(_, _, _, _)
ForEach(connections, l, abs, th) ==
    IF connections = <<>> THEN <<>>
    ELSE LET made == DrawConnection(Head(connections).from, Head(connections).to,
                                    Head(connections).color, l, abs, th)
         IN  IF made # <<>> /\ made[1].arrow.raised THEN made
             ELSE made \o ForEach(Tail(connections), l, abs, th)

\* a branch that fell through: the return flowchart also got the delay one's
ConnectionsForBoth(type) ==
    IF type = "hachzarah" THEN HachzarahConnections \o DefaultConnections
    ELSE DefaultConnections

\* a branch that tested for the default's name instead of the alternate's
ConnectionsForStrict(type) ==
    IF type = "default" THEN DefaultConnections ELSE HachzarahConnections

\* the branch of drawConnections on this.connectionType
ConnectionsFor(type) ==
    IF type = "hachzarah" THEN HachzarahConnections ELSE DefaultConnections

\* a drawArrow call that got as far as painting
Painted(call) == ~call.arrow.raised

DrawConnections(S, type, l, abs, th) ==
    LET S1 == ClearRect(S, 0, 0, S.canvas.width, S.canvas.height)
        arrows == ForEach(ConnectionsFor(type), l, abs, th)
    IN  [Paint(S1, SelectSeq(arrows, Painted)) EXCEPT !.calls = arrows]

\* constructor(canvasId, flowchartId, connectionType = 'default')
DefaultParam(arg) == IF arg = "undefined" THEN "default" ELSE arg

-----------------------------------------------------------------------------
(* The state machine *)

Surface == [canvas |-> canvas, ctx |-> ctx, calls |-> calls]

Put(S) == canvas' = S.canvas /\ ctx' = S.ctx /\ calls' = S.calls

Depth(pix) ==
    IF DOMAIN pix = {} THEN 0
    ELSE CHOOSE n \in {Len(pix[p]) : p \in DOMAIN pix} :
             \A p \in DOMAIN pix : Len(pix[p]) <= n

NoCall == [method |-> "none", args |-> <<>>, value |-> <<>>]

\* no FlowchartConnector is constructed yet
StartConnector ==
    /\ status = "unbuilt"
    /\ connectionType = "unset"
    /\ lineColor = <<>>
    /\ canvas = [width |-> 300, height |-> 150, styleWidth |-> <<>>,
                 styleHeight |-> <<>>, pixels |-> NoPixels]
    /\ ctx = DefaultCtx
    /\ calls = <<>>
    /\ timers = {}
    /\ resizeTimeout = 0
    /\ burst = 0
    /\ passes = 0
    /\ inSync = FALSE
    /\ op = "none"
    /\ rep = 0
    /\ returned = NoCall

\* a question of two options whose answer box names the second
FirstQuestion ==
    [options |-> <<<<"alef">>, <<"bet">>>>, answerBox |-> TRUE,
     answerText |-> <<"correctAnswer:", " ", "bet">>, showAnswerBtn |-> TRUE]

\* the deck's script has been evaluated and initializeApp has not run yet
StartScript ==
    /\ slides = FALSE
    /\ totalSlides = <<>>
    /\ slideshowContainer = FALSE
    /\ isRTL = FALSE
    /\ currentSlide = 0
    /\ currentSlideText = 1
    /\ prevDisabled = FALSE
    /\ nextDisabled = FALSE
    /\ touchStartX = 0 /\ touchStartY = 0 /\ touchEndX = 0 /\ touchEndY = 0
    /\ called = <<>>
    /\ input = <<>>
    /\ navReady = FALSE
    /\ navVisible = FALSE
    /\ hideTimer = 0
    /\ navTimers = {}
    /\ shown = FALSE
    /\ quizReady = FALSE
    /\ correctAnswer = <<>>
    /\ optionLetter = <<>>
    /\ optionClass = [i \in 1..Len(question.options) |-> {}]
    /\ answerShown = FALSE
    /\ buttonText = "showAnswer"

\* one deck, for the runs that are about the flowchart connector
StartApp ==
    /\ nSlides = 1
    /\ rtlMode = FALSE
    /\ savedMode = "light"
    /\ active = {0}
    /\ navControls = TRUE
    /\ isTouchDevice = FALSE
    /\ question = FirstQuestion
    /\ StartScript

\* the flowchart page as it loads
Start ==
    /\ absent = {}
    /\ layout = PageLayout(0)
    /\ dpr = <<1, 1>>
    /\ theme = "light"
    /\ StartConnector
    /\ StartApp

\* a page whose layout engine reports any of the probe's boxes
InitAnchor ==
    /\ canvasEl = TRUE
    /\ flowchartEl = TRUE
    /\ ctorArg = "undefined"
    /\ absent \in {{}, {"probe"}}
    /\ layout \in ProbeLayouts
    /\ dpr = <<1, 1>>
    /\ theme = "light"
    /\ StartConnector
    /\ StartApp

Init ==
    /\ canvasEl \in BOOLEAN
    /\ flowchartEl \in BOOLEAN
    /\ ctorArg \in {"undefined", "hachzarah"}
    /\ Start

InitSurface ==
    /\ canvasEl = TRUE
    /\ flowchartEl = TRUE
    /\ ctorArg \in {"undefined", "hachzarah"}
    /\ Start

InitDoc ==
    /\ canvasEl = TRUE
    /\ flowchartEl = TRUE
    /\ ctorArg \in TypeArgs
    /\ Start

\* new FlowchartConnector(canvasId, flowchartId, connectionType)
Construct ==
    /\ status = "unbuilt"
    /\ op' = "construct"
    /\ rep' = 0
    /\ UNCHANGED <<appVars, returned, envVars, timers, resizeTimeout, burst, passes>>
    /\ IF ~canvasEl
       THEN /\ status' = "inert"
            /\ UNCHANGED <<connectionType, lineColor, canvas, ctx, calls, inSync>>
       ELSE /\ connectionType' = DefaultParam(ctorArg)
            /\ lineColor' = Trim(GetPropertyValue("--primary-color", theme))
            /\ IF ~flowchartEl
               THEN \* this.flowchart is null: init() -> resizeCanvas() raises
                    /\ status' = "threw"
                    /\ UNCHANGED <<canvas, ctx, calls, inSync>>
               ELSE /\ status' = "live"
                    /\ inSync' = TRUE
                    /\ Put(DrawConnections(ResizeCanvas(Surface, layout, dpr),
                                           DefaultParam(ctorArg), layout, absent, theme))

\* a listener that left the earlier timer running
ClearTimeoutNever(ts, id) == ts

\* clearTimeout(id)
ClearTimeout(ts, id) == {t \in ts : t.id # id}

\* the handle setTimeout returns
FreshId == CHOOSE i \in 1..(Cardinality(timers) + 2) :
               /\ i # resizeTimeout
               /\ \A t \in timers : t.id # i

\* the window dispatches a resize event; the listener registered by init()
\* runs if the constructor got that far
WindowResize ==
    /\ status # "unbuilt"
    /\ timers = {} \/ burst < MaxBurst
    /\ burst' = IF timers = {} THEN 1 ELSE burst + 1
    /\ op' = "event"
    /\ rep' = 0
    /\ UNCHANGED <<appVars, returned, envVars, status, connectionType, lineColor, canvas, ctx, calls, inSync>>
    /\ IF status = "live"
       THEN /\ timers' = ClearTimeout(timers, resizeTimeout)
                             \cup {[id |-> FreshId, age |-> 0]}
            /\ resizeTimeout' = FreshId
            /\ passes' = 0
       ELSE UNCHANGED <<timers, resizeTimeout, passes>>

\* time passes
Tick ==
    /\ \E t \in timers : t.age < DebounceMs
    /\ timers' = {[id |-> t.id, age |-> Min(t.age + TickMs, DebounceMs)] : t \in timers}
    /\ op' = "tick"
    /\ rep' = 0
    /\ UNCHANGED <<appVars, returned, envVars, status, connectionType, lineColor, canvas, ctx, calls,
                   resizeTimeout, burst, passes, inSync>>

\* a timer's delay has run out and its callback runs
TimerFire ==
    \E t \in timers :
        /\ t.age >= DebounceMs
        /\ timers' = timers \ {t}
        /\ Put(DrawConnections(ResizeCanvas(Surface, layout, dpr),
                               connectionType, layout, absent, theme))
        /\ passes' = passes + 1
        /\ inSync' = TRUE
        /\ op' = "timer"
        /\ rep' = 0
        /\ UNCHANGED <<appVars, returned, envVars, status, connectionType, lineColor, resizeTimeout, burst>>

\* connector.resizeCanvas() called by the page
CallResizeCanvas ==
    /\ status = "live"
    /\ op = "resizeCanvas" => rep < MaxRep
    /\ Put(ResizeCanvas(Surface, layout, dpr))
    /\ inSync' = TRUE
    /\ op' = "resizeCanvas"
    /\ rep' = IF op = "resizeCanvas" THEN rep + 1 ELSE 1
    /\ UNCHANGED <<appVars, returned, envVars, status, connectionType, lineColor, timers, resizeTimeout,
                   burst, passes>>

\* connector.drawConnections() called by the page
CallDrawConnections ==
    /\ status = "live"
    /\ op = "drawConnections" => rep < MaxRep
    /\ Depth(canvas.pixels) < MaxDepth
    /\ Put(DrawConnections(Surface, connectionType, layout, absent, theme))
    /\ op' = "drawConnections"
    /\ rep' = IF op = "drawConnections" THEN rep + 1 ELSE 1
    /\ UNCHANGED <<appVars, returned, envVars, status, connectionType, lineColor, timers, resizeTimeout,
                   burst, passes, inSync>>

\* the page lays itself out again: the container and the elements move and resize
Relayout ==
    \E l \in Layouts \ {layout} :
        /\ layout' = l
        /\ inSync' = FALSE
        /\ op' = "env"
        /\ rep' = 0
        /\ UNCHANGED <<appVars, returned, canvasEl, flowchartEl, ctorArg, absent, dpr, theme, status,
                       connectionType, lineColor, canvas, ctx, calls, timers,
                       resizeTimeout, burst, passes>>

\* the window moves to another screen or the page is zoomed
SetDevicePixelRatio ==
    \E d \in DprValues \ {dpr} :
        /\ dpr' = d
        /\ inSync' = FALSE
        /\ op' = "env"
        /\ rep' = 0
        /\ UNCHANGED <<appVars, returned, canvasEl, flowchartEl, ctorArg, absent, layout, theme, status,
                       connectionType, lineColor, canvas, ctx, calls, timers,
                       resizeTimeout, burst, passes>>

\* changeTheme / changeMode: the root style variables take other values
SetTheme ==
    \E t \in Themes \ {theme} :
        /\ theme' = t
        /\ op' = "env"
        /\ rep' = 0
        /\ UNCHANGED <<appVars, returned, canvasEl, flowchartEl, ctorArg, absent, layout, dpr, status,
                       connectionType, lineColor, canvas, ctx, calls, timers,
                       resizeTimeout, burst, passes, inSync>>

\* the ids the renderer's table names
TableIds(type) ==
    {ConnectionsFor(type)[i].from : i \in DOMAIN ConnectionsFor(type)}
        \cup {ConnectionsFor(type)[i].to : i \in DOMAIN ConnectionsFor(type)}

\* the document loses or regains one of the flowchart's elements; once the
\* renderer is built, one element changes between two of its steps
ToggleElement ==
    \E id \in TableIds(DefaultParam(ctorArg)) :
        /\ status = "unbuilt" \/ op # "env"
        /\ id \in absent \/ Cardinality(absent) < MaxAbsent
        /\ absent' = IF id \in absent THEN absent \ {id} ELSE absent \cup {id}
        /\ op' = "env"
        /\ rep' = 0
        /\ UNCHANGED <<appVars, returned, canvasEl, flowchartEl, ctorArg, layout, dpr, theme, status,
                       connectionType, lineColor, canvas, ctx, calls, timers,
                       resizeTimeout, burst, passes, inSync>>

\* ids the page asks the connector's anchor methods about
AnchorIds == {"probe", "question1", "q1-no"}

\* a direct call of a method that changes nothing and returns a value
Returns(method, args, value) ==
    /\ status = "live"
    /\ returned' = [method |-> method, args |-> args, value |-> value]
    /\ op' = method
    /\ rep' = 0
    /\ UNCHANGED <<appVars, envVars, status, connectionType, lineColor, canvas, ctx,
                   calls, timers, resizeTimeout, burst, passes, inSync>>

\* connector.getElementCenter(elementId) called by the page
CallGetElementCenter ==
    \E id \in AnchorIds :
        Returns("getElementCenter", <<id>>, GetElementCenter(id, layout, absent))

\* connector.getElementBottom(elementId) called by the page
CallGetElementBottom ==
    \E id \in AnchorIds :
        Returns("getElementBottom", <<id>>, GetElementBottom(id, layout, absent))

\* connector.getElementTop(elementId) called by the page
CallGetElementTop ==
    \E id \in AnchorIds :
        Returns("getElementTop", <<id>>, GetElementTop(id, layout, absent))

\* color tokens a caller may hand to the connector: the tables' four, a
\* literal name, a variable no style sheet registers, and two that start
\* with var( but hold no var(--name)
ColorTokens ==
    {Gradient, ErrorStart, LinkColor, Orange, <<"red">>,
     <<"var(", "--no-such-color", ")">>, <<"var(", "primary", ")">>,
     <<"var(", "--link-color">>}

\* connector.resolveColor(color) called by the page
CallResolveColor ==
    \E color \in ColorTokens :
        Returns("resolveColor", <<color>>, ResolveColor(color, theme))

\* connector.drawConnection('question1', 'q1-yes', color) called by the page:
\* it paints over what the bitmap holds, or raises what drawArrow raised
CallDrawConnection ==
    \E color \in ColorTokens :
        LET made == DrawConnection("question1", "q1-yes", color, layout, absent, theme)
            S == Paint(Surface, SelectSeq(made, Painted))
        IN  /\ status = "live"
            /\ op = "drawConnection" => rep < MaxRep
            /\ Depth(canvas.pixels) < MaxDepth
            /\ canvas' = S.canvas
            /\ ctx' = S.ctx
            /\ returned' = [method |-> "drawConnection",
                            args |-> <<"question1", "q1-yes", color>>,
                            value |-> made]
            /\ op' = "drawConnection"
            /\ rep' = IF op = "drawConnection" THEN rep + 1 ELSE 1
            /\ UNCHANGED <<appVars, envVars, status, connectionType, lineColor, calls,
                           timers, resizeTimeout, burst, passes, inSync>>

\* the renderer's life on a page whose elements stay: construction, the
\* debounced resize listener, and the page's layout and screen changing
Next ==
    \/ Construct
    \/ WindowResize
    \/ Tick
    \/ TimerFire
    \/ Relayout
    \/ SetDevicePixelRatio

Spec == Init /\ [][Next]_vars

\* the surface under direct calls of resizeCanvas and drawConnections
NextSurface ==
    \/ Construct
    \/ CallResizeCanvas
    \/ CallDrawConnections
    \/ Relayout
    \/ SetDevicePixelRatio

SpecSurface == InitSurface /\ [][NextSurface]_vars

\* redraws on a page whose flowchart elements come and go
NextDoc ==
    \/ Construct
    \/ ToggleElement
    \/ CallDrawConnections

SpecDoc == InitDoc /\ [][NextDoc]_vars

\* redraws on a page whose theme and screen change
NextTheme ==
    \/ Construct
    \/ SetTheme
    \/ SetDevicePixelRatio
    \/ CallDrawConnections

SpecTheme == InitSurface /\ [][NextTheme]_vars

\* the connector handed color tokens, on a page whose theme changes
NextColor ==
    \/ Construct
    \/ SetTheme
    \/ CallResolveColor
    \/ CallDrawConnection
    \/ CallDrawConnections

SpecColor == InitSurface /\ [][NextColor]_vars

\* the anchor methods called on a page of any probe layout
NextAnchor ==
    \/ Construct
    \/ CallGetElementCenter
    \/ CallGetElementBottom
    \/ CallGetElementTop

SpecAnchor == InitAnchor /\ [][NextAnchor]_vars

-----------------------------------------------------------------------------
(* The slide deck.  D is the part of its state that showSlide writes:       *)
(* [currentSlide, active, currentSlideText, prevDisabled, nextDisabled],    *)
(* with called, the navigation functions called so far in this handler.     *)

\* the JS remainder a % b for b > 0: it has the sign of a
JsRem(a, b) == IF a >= 0 THEN a % b ELSE -((-a) % b)

Abs(n) == IF n < 0 THEN -n ELSE n

\* a showSlide that left the slide it came from marked active
ShowSlideKeepActive(D, total, n) ==
    LET cur == JsRem(n + total, total)
    IN  [D EXCEPT !.currentSlide = cur,
                  !.active = @ \cup {cur},
                  !.currentSlideText = cur + 1,
                  !.prevDisabled = (cur = 0),
                  !.nextDisabled = (cur = total - 1)]

\* showSlide(n) with totalSlides = total.  slides[i] is undefined outside
\* 0..total-1, and reading its classList then raises a TypeError that ends
\* the function where it stands.  (window.scrollTo moves the viewport only.)
ShowSlide(D, total, n) ==
    LET cur == JsRem(n + total, total)
        D1 == [D EXCEPT !.active = @ \ {D.currentSlide}]
    IN  IF D.currentSlide \notin 0..(total - 1) THEN D
        ELSE IF cur \notin 0..(total - 1) THEN [D1 EXCEPT !.currentSlide = cur]
        ELSE [D1 EXCEPT !.currentSlide = cur,
                        !.active = @ \cup {cur},
                        !.currentSlideText = cur + 1,
                        !.prevDisabled = (cur = 0),
                        !.nextDisabled = (cur = total - 1)]

\* a nextSlide that went on from the last slide
NextSlideWrap(D, total) ==
    LET D1 == [D EXCEPT !.called = Append(@, "nextSlide")]
    IN  IF total # <<>> THEN ShowSlide(D1, total[1], D.currentSlide + 1) ELSE D1

\* nextSlide(): while totalSlides is undefined, totalSlides - 1 is NaN and
\* the comparison is false
NextSlide(D, total) ==
    LET D1 == [D EXCEPT !.called = Append(@, "nextSlide")]
    IN  IF total # <<>> /\ D.currentSlide < total[1] - 1
        THEN ShowSlide(D1, total[1], D.currentSlide + 1)
        ELSE D1

\* previousSlide()
PreviousSlide(D, total) ==
    LET D1 == [D EXCEPT !.called = Append(@, "previousSlide")]
    IN  IF D.currentSlide > 0
        THEN ShowSlide(D1, total[1], D.currentSlide - 1)
        ELSE D1

\* a goToSlide that showed whatever slide it was asked for
GoToSlideUnchecked(D, total, slideNumber) ==
    IF total # <<>> THEN ShowSlide(D, total[1], slideNumber - 1) ELSE D

\* goToSlide(slideNumber)
GoToSlide(D, total, slideNumber) ==
    LET slideIndex == slideNumber - 1
    IN  IF slideIndex >= 0 /\ total # <<>> /\ slideIndex < total[1]
        THEN ShowSlide(D, total[1], slideIndex)
        ELSE D

\* a handleSwipe that took every page for a left-to-right one
HandleSwipeLtr(D, total, rtl, startX, startY, endX, endY) ==
    LET horizontalDiff == endX - startX
        verticalDiff == endY - startY
    IN  IF /\ Abs(horizontalDiff) > Abs(verticalDiff)
           /\ Abs(horizontalDiff) > MinSwipeDistance
        THEN IF horizontalDiff < 0 THEN NextSlide(D, total)
             ELSE PreviousSlide(D, total)
        ELSE D

\* handleSwipe() with the touch coordinates given
HandleSwipe(D, total, rtl, startX, startY, endX, endY) ==
    LET horizontalDiff == endX - startX
        verticalDiff == endY - startY
    IN  IF /\ Abs(horizontalDiff) > Abs(verticalDiff)
           /\ Abs(horizontalDiff) > MinSwipeDistance
        THEN IF rtl
             THEN IF horizontalDiff > 0 THEN NextSlide(D, total)
                  ELSE PreviousSlide(D, total)
             ELSE IF horizontalDiff < 0 THEN NextSlide(D, total)
                  ELSE PreviousSlide(D, total)
        ELSE D

Deck ==
    [currentSlide |-> currentSlide, active |-> active,
     currentSlideText |-> currentSlideText, prevDisabled |-> prevDisabled,
     nextDisabled |-> nextDisabled, called |-> <<>>]

PutDeck(D) ==
    /\ currentSlide' = D.currentSlide
    /\ active' = D.active
    /\ currentSlideText' = D.currentSlideText
    /\ prevDisabled' = D.prevDisabled
    /\ nextDisabled' = D.nextDisabled
    /\ called' = D.called

\* what no handler of the deck writes
DeckFrame(name, in) ==
    /\ op' = name
    /\ rep' = 0
    /\ input' = in
    /\ UNCHANGED <<canvasEl, flowchartEl, ctorArg, absent, layout, dpr,
                   connectorVars, nSlides, rtlMode, savedMode, navControls,
                   isTouchDevice, quizVars>>

\* handleNavigationVisibility's state: the class of the controls, hideTimer
\* and the timers of the page that are pending
Nav == [visible |-> navVisible, hideTimer |-> hideTimer, timers |-> navTimers]

PutNav(N) ==
    /\ navVisible' = N.visible
    /\ hideTimer' = N.hideTimer
    /\ navTimers' = N.timers

\* the handle setTimeout returns: the least one that no pending timer has and
\* hideTimer does not hold
NewTimerId(N) ==
    CHOOSE i \in 1..(Cardinality(N.timers) + 2) :
        /\ i # N.hideTimer
        /\ \A t \in N.timers : t.id # i
        /\ \A j \in 1..(i - 1) : j = N.hideTimer \/ \E t \in N.timers : t.id = j

\* setTimeout(callback, delay): kind names the callback
SetTimeoutNav(N, kind, delay) ==
    [N EXCEPT !.timers = @ \cup {[id |-> NewTimerId(N), kind |-> kind,
                                  age |-> 0, delay |-> delay]}]

\* showNavigation()
ShowNavigation(N, controls) ==
    [visible |-> (controls \/ N.visible),
     hideTimer |-> 0,
     timers |-> IF N.hideTimer # 0 THEN ClearTimeout(N.timers, N.hideTimer)
                ELSE N.timers]

\* hideNavigation(): the new timer's handle replaces hideTimer, the timer
\* hideTimer named stays pending
HideNavigation(N, touch) ==
    LET id == NewTimerId(N)
    IN  [N EXCEPT !.hideTimer = id,
                  !.timers = @ \cup {[id |-> id, kind |-> "hide", age |-> 0,
                                      delay |-> IF touch THEN HideDelayTouch
                                                ELSE HideDelayMouse]}]

\* initializeApp(): it reads the document, applies the saved theme and mode,
\* shows the first slide and, in handleNavigationVisibility(), shows the
\* navigation controls and sets the 2000 ms timer that will call
\* hideNavigation
InitializeApp ==
    /\ ~slides
    /\ slides' = TRUE
    /\ totalSlides' = <<nSlides>>
    /\ slideshowContainer' = TRUE
    /\ isRTL' = rtlMode
    /\ theme' = IF theme = "unstyled" THEN theme ELSE savedMode
    /\ PutDeck(ShowSlide(Deck, nSlides, 0))
    /\ navReady' = TRUE
    /\ PutNav(SetTimeoutNav(ShowNavigation(Nav, navControls), "callHide",
                             LoadHideDelay))
    /\ shown' = TRUE
    /\ DeckFrame("initializeApp", <<>>)
    /\ UNCHANGED <<touchStartX, touchStartY, touchEndX, touchEndY>>

\* what the handlers that only navigate leave alone
NavigationFrame(name, in) ==
    /\ DeckFrame(name, in)
    /\ UNCHANGED <<theme, slides, totalSlides, slideshowContainer, isRTL,
                   navReady, navVisible, hideTimer, navTimers, shown>>

\* nextSlide() called by the next button
CallNextSlide ==
    /\ PutDeck(NextSlide(Deck, totalSlides))
    /\ NavigationFrame("nextSlide", <<>>)
    /\ UNCHANGED <<touchStartX, touchStartY, touchEndX, touchEndY>>

\* previousSlide() called by the previous button
CallPreviousSlide ==
    /\ PutDeck(PreviousSlide(Deck, totalSlides))
    /\ NavigationFrame("previousSlide", <<>>)
    /\ UNCHANGED <<touchStartX, touchStartY, touchEndX, touchEndY>>

\* slide numbers a caller may ask for
SlideNumbers == (-(MaxSlides + 1))..(MaxSlides + 2)

\* goToSlide(slideNumber) called by a link of the table of contents
CallGoToSlide ==
    \E slideNumber \in SlideNumbers :
        /\ PutDeck(GoToSlide(Deck, totalSlides, slideNumber))
        /\ NavigationFrame("goToSlide", <<slideNumber>>)
        /\ UNCHANGED <<touchStartX, touchStartY, touchEndX, touchEndY>>

Keys == {"ArrowLeft", "ArrowDown", "ArrowRight", "ArrowUp", "Home", "End", " ", "a"}

\* the keydown listener
KeyDown ==
    \E key \in Keys :
        LET D1 == IF key \in {"ArrowLeft", "ArrowDown"}
                  THEN NextSlide(Deck, totalSlides) ELSE Deck
            D2 == IF key \in {"ArrowRight", "ArrowUp"}
                  THEN PreviousSlide(D1, totalSlides) ELSE D1
            D3 == IF key = "Home" THEN ShowSlide(D2, totalSlides[1], 0) ELSE D2
            D4 == IF key = "End"
                  THEN ShowSlide(D3, totalSlides[1], totalSlides[1] - 1) ELSE D3
            D5 == IF key = " " THEN NextSlide(D4, totalSlides) ELSE D4
        IN  /\ PutDeck(IF ~slides THEN Deck ELSE D5)
            /\ NavigationFrame("keydown", <<key>>)
            /\ UNCHANGED <<touchStartX, touchStartY, touchEndX, touchEndY>>

\* screen coordinates of a touch
TouchXs == {0, 81, 161}
TouchYs == {0, 100}

\* the touchstart listener of the deck
TouchStart ==
    \E x \in TouchXs, y \in TouchYs :
        /\ touchStartX' = x
        /\ touchStartY' = y
        /\ PutDeck(Deck)
        /\ NavigationFrame("touchstart", <<x, y>>)
        /\ UNCHANGED <<touchEndX, touchEndY>>

\* the touchend listener of the deck
TouchEnd ==
    \E x \in TouchXs, y \in TouchYs :
        /\ touchEndX' = x
        /\ touchEndY' = y
        /\ PutDeck(HandleSwipe(Deck, totalSlides, isRTL, touchStartX, touchStartY, x, y))
        /\ NavigationFrame("touchend", <<x, y>>)
        /\ UNCHANGED <<touchStartX, touchStartY>>

\* what a click lands on: plain content of a slide, an interactive element
\* (button, a, input, ...), the navigation controls, or none of these
ClickTargets == {"slide", "interactive", "navigation", "outside"}

\* slideshowContainer.getBoundingClientRect().width, and where a click
\* falls from the container's left edge
SlideshowWidth == 1000
ClickXs == {100, 150, 500, 850, 900}

\* the click listener of the document: a click in the outer 15% of the
\* slideshow navigates
Click ==
    \E target \in ClickTargets, clickX \in ClickXs :
        LET left == clickX * 100 < SlideshowWidth * 15
            right == clickX * 100 > SlideshowWidth * 100 - SlideshowWidth * 15
            D == IF isRTL
                 THEN IF left THEN NextSlide(Deck, totalSlides)
                      ELSE IF right THEN PreviousSlide(Deck, totalSlides) ELSE Deck
                 ELSE IF left THEN PreviousSlide(Deck, totalSlides)
                      ELSE IF right THEN NextSlide(Deck, totalSlides) ELSE Deck
        IN  /\ PutDeck(IF ~slides \/ ~slideshowContainer \/ target # "slide"
                       THEN Deck ELSE D)
            /\ NavigationFrame("click", IF target = "slide" THEN <<target, clickX>>
                                        ELSE <<target>>)
            /\ UNCHANGED <<touchStartX, touchStartY, touchEndX, touchEndY>>

\* a deck of any size and direction, with its first slide marked active in
\* the markup or none
InitSlides ==
    /\ canvasEl = TRUE
    /\ flowchartEl = TRUE
    /\ ctorArg = "undefined"
    /\ absent = {}
    /\ layout = PageLayout(0)
    /\ dpr = <<1, 1>>
    /\ theme = "light"
    /\ StartConnector
    /\ nSlides \in 1..MaxSlides
    /\ rtlMode \in BOOLEAN
    /\ savedMode = "light"
    /\ active \in {{}, {0}}
    /\ navControls = TRUE
    /\ isTouchDevice = TRUE
    /\ question = FirstQuestion
    /\ StartScript

NextSlides ==
    \/ InitializeApp
    \/ CallNextSlide
    \/ CallPreviousSlide
    \/ CallGoToSlide
    \/ KeyDown
    \/ TouchStart
    \/ TouchEnd
    \/ Click

SpecSlides == InitSlides /\ [][NextSlides]_vars

-----------------------------------------------------------------------------
(* The navigation controls: handleNavigationVisibility's listeners *)

\* what the listeners of the navigation controls leave alone
ControlsFrame(name, in) ==
    /\ DeckFrame(name, in)
    /\ UNCHANGED <<theme, slides, totalSlides, slideshowContainer, isRTL,
                   currentSlide, active, currentSlideText, prevDisabled,
                   nextDisabled, touchStartX, touchStartY, touchEndX,
                   touchEndY, called, navReady>>

InnerHeight == 1000

\* window.innerHeight - e.clientY of a mouse event
MouseDistances == {threshold, threshold + 1, threshold + HideMargin,
                   threshold + HideMargin + 1}

\* window.innerHeight - touch.clientY of a touch
TouchDistances == {InnerHeight \div 5, InnerHeight \div 5 + 1}

\* mousemove on the document
NavMouseMove ==
    /\ navReady
    /\ Cardinality(navTimers) < MaxNavTimers
    /\ \E distanceFromBottom \in MouseDistances :
          /\ IF isTouchDevice
                THEN UNCHANGED <<navVisible, hideTimer, navTimers, shown>>
                ELSE IF distanceFromBottom <= threshold
                THEN PutNav(ShowNavigation(Nav, navControls)) /\ shown' = TRUE
                ELSE IF distanceFromBottom > threshold + HideMargin
                THEN PutNav(HideNavigation(Nav, isTouchDevice)) /\ shown' = FALSE
                ELSE UNCHANGED <<navVisible, hideTimer, navTimers, shown>>
          /\ ControlsFrame("mousemove", <<distanceFromBottom>>)

\* touchstart on the document, registered on a touch device
NavTouchStartDocument ==
    /\ navReady
    /\ isTouchDevice
    /\ Cardinality(navTimers) < MaxNavTimers
    /\ \E distanceFromBottom \in TouchDistances :
          /\ IF 5 * distanceFromBottom <= InnerHeight
                THEN /\ PutNav(HideNavigation(ShowNavigation(Nav, navControls),
                                              isTouchDevice))
                     /\ shown' = FALSE
                ELSE UNCHANGED <<navVisible, hideTimer, navTimers, shown>>
          /\ ControlsFrame("touchstartDocument", <<distanceFromBottom>>)

\* touchstart on the navigation controls, registered on a touch device
NavTouchStartControls ==
    /\ navReady
    /\ isTouchDevice
    /\ navControls
    /\ PutNav(ShowNavigation(Nav, navControls))
    /\ shown' = TRUE
    /\ ControlsFrame("touchstartControls", <<>>)

\* click on a button or select of the navigation controls on a touch device
NavButtonClick ==
    /\ navReady
    /\ isTouchDevice
    /\ navControls
    /\ Cardinality(navTimers) < MaxNavTimers
    /\ PutNav(SetTimeoutNav(Nav, "callHide", ClickHideDelay))
    /\ UNCHANGED shown
    /\ ControlsFrame("clickControls", <<>>)

\* mouseenter on the navigation controls, registered without touch: it clears
\* hideTimer itself and then calls showNavigation
NavMouseEnter ==
    /\ navReady
    /\ ~isTouchDevice
    /\ navControls
    /\ PutNav(ShowNavigation(ShowNavigation(Nav, navControls), navControls))
    /\ shown' = TRUE
    /\ ControlsFrame("mouseenter", <<>>)

\* mouseleave on the navigation controls, registered without touch
NavMouseLeave ==
    /\ navReady
    /\ ~isTouchDevice
    /\ navControls
    /\ Cardinality(navTimers) < MaxNavTimers
    /\ PutNav(HideNavigation(Nav, isTouchDevice))
    /\ shown' = FALSE
    /\ ControlsFrame("mouseleave", <<>>)

\* time passes while no timer of the navigation is due
NavTick ==
    /\ navTimers # {}
    /\ \A t \in navTimers : t.age < t.delay
    /\ navTimers' = {[t EXCEPT !.age = Min(t.age + NavTickMs, t.delay)] :
                        t \in navTimers}
    /\ UNCHANGED <<navVisible, hideTimer, shown>>
    /\ ControlsFrame("navTick", <<>>)

\* a timer of the navigation runs out: the callback of hideNavigation removes
\* the class, the other callbacks call hideNavigation
NavTimerFire ==
    \E t \in navTimers :
        /\ t.age >= t.delay
        /\ LET N == [Nav EXCEPT !.timers = @ \ {t}]
           IN  IF t.kind = "hide"
                 THEN /\ PutNav([N EXCEPT !.visible = IF navControls THEN FALSE
                                                      ELSE @])
                      /\ UNCHANGED shown
                 ELSE /\ PutNav(HideNavigation(N, isTouchDevice))
                      /\ shown' = FALSE
        /\ ControlsFrame("navTimer", <<t.kind>>)

\* a page with or without navigation controls, with or without touch
InitNav ==
    /\ canvasEl = TRUE
    /\ flowchartEl = TRUE
    /\ ctorArg = "undefined"
    /\ absent = {}
    /\ layout = PageLayout(0)
    /\ dpr = <<1, 1>>
    /\ theme = "light"
    /\ StartConnector
    /\ nSlides = 1
    /\ rtlMode = FALSE
    /\ savedMode \in {"light", "dark"}
    /\ active = {0}
    /\ navControls \in BOOLEAN
    /\ isTouchDevice \in BOOLEAN
    /\ question = FirstQuestion
    /\ StartScript

NextNav ==
    \/ InitializeApp
    \/ NavMouseMove
    \/ NavTouchStartDocument
    \/ NavTouchStartControls
    \/ NavButtonClick
    \/ NavMouseEnter
    \/ NavMouseLeave
    \/ NavTick
    \/ NavTimerFire

SpecNav == InitNav /\ [][NextNav]_vars

-----------------------------------------------------------------------------
(* The quiz: toggleAnswer and the click listener of the options *)

\* the letters of [א-ת], by name
LetterNames == <<"alef", "bet", "gimel", "dalet", "he", "vav">>

Letters == {LetterNames[i] : i \in 1..Len(LetterNames)}

\* the words the answer box opens with: תשובה נכונה:
AnswerLabel == "correctAnswer:"

\* textContent of the show-answer button: הצג תשובה and הסתר תשובה
ShowAnswerText == "showAnswer"
HideAnswerText == "hideAnswer"

\* answerText.match(/תשובה נכונה:\s*([א-ת])/): null, or the letter that
\* follows the first label with nothing but white space between them
MatchAnswer(answerText) ==
    LET letterAfter(i) ==
            LET rest == TrimLeft(SubSeq(answerText, i + 1, Len(answerText)))
            IN  IF rest # <<>> /\ Head(rest) \in Letters THEN <<Head(rest)>>
                ELSE <<>>
        hits == {i \in 1..Len(answerText) :
                    answerText[i] = AnswerLabel /\ letterAfter(i) # <<>>}
    IN  IF hits = {} THEN Null
        ELSE [null |-> FALSE,
              group1 |-> letterAfter(CHOOSE i \in hits : \A j \in hits : i <= j)]

\* the correct letter the listener keeps: '' without an answer box or a match
CorrectAnswer(q) ==
    IF ~q.answerBox THEN <<>>
    ELSE LET match == MatchAnswer(q.answerText)
         IN  IF match.null THEN <<>> ELSE match.group1

\* option.querySelector('.option-letter').textContent.trim() of each option
OptionLetters(q) == [i \in 1..Len(q.options) |-> Trim(q.options[i])]

\* what the quiz handlers read and write of a question: the classes of its
\* options, the class show of its answer box and the text of its button
Quiz == [class |-> optionClass, show |-> answerShown, text |-> buttonText]

PutQuiz(Q) ==
    /\ optionClass' = Q.class
    /\ answerShown' = Q.show
    /\ buttonText' = Q.text

ToggleAnswerKeepColors(Q) ==
    IF Q.show
      THEN [Q EXCEPT !.show = FALSE, !.text = ShowAnswerText]
      ELSE [Q EXCEPT !.show = TRUE, !.text = HideAnswerText]

\* toggleAnswer(button, event)
ToggleAnswer(Q) ==
    IF Q.show
      THEN [class |-> [i \in DOMAIN Q.class |-> {}],
            show |-> FALSE,
            text |-> ShowAnswerText]
      ELSE [Q EXCEPT !.show = TRUE, !.text = HideAnswerText]

OptionClickReveal(Q, i, q, letter, correct) ==
    IF "correct" \in Q.class[i] \/ "incorrect" \in Q.class[i] THEN Q
    ELSE [class |-> [j \in DOMAIN Q.class |->
                        IF letter[j] = correct THEN Q.class[j] \cup {"correct"}
                        ELSE IF j = i THEN Q.class[j] \cup {"incorrect"}
                        ELSE Q.class[j]],
          show |-> (q.answerBox \/ Q.show),
          text |-> IF q.answerBox /\ q.showAnswerBtn THEN HideAnswerText
                   ELSE Q.text]

\* the click listener of option i of question q, with the letters the
\* DOMContentLoaded listener kept
OptionClick(Q, i, q, letter, correct) ==
    IF "correct" \in Q.class[i] \/ "incorrect" \in Q.class[i] THEN Q
    ELSE IF letter[i] = correct
      THEN [Q EXCEPT !.class[i] = @ \cup {"correct"}]
      ELSE [class |-> [j \in DOMAIN Q.class |->
                          IF letter[j] = correct THEN Q.class[j] \cup {"correct"}
                          ELSE IF j = i THEN Q.class[j] \cup {"incorrect"}
                          ELSE Q.class[j]],
            show |-> (q.answerBox \/ Q.show),
            text |-> IF q.answerBox /\ q.showAnswerBtn THEN HideAnswerText
                     ELSE Q.text]

\* what the quiz handlers leave alone
QuizFrame(name, in) ==
    /\ op' = name
    /\ rep' = 0
    /\ input' = in
    /\ UNCHANGED <<envVars, connectorVars, navVars, question, nSlides, rtlMode,
                   savedMode, slides, totalSlides, slideshowContainer, isRTL,
                   currentSlide, active, currentSlideText, prevDisabled,
                   nextDisabled, touchStartX, touchStartY, touchEndX, touchEndY,
                   called>>

\* the second DOMContentLoaded listener: it returns while slides is not set,
\* else it turns the slide references of the table of contents into links
\* and gives every option of every question its click listener
DomContentLoaded ==
    /\ ~quizReady
    /\ IF ~slides
         THEN UNCHANGED <<quizReady, correctAnswer, optionLetter>>
         ELSE /\ quizReady' = TRUE
              /\ correctAnswer' = CorrectAnswer(question)
              /\ optionLetter' = OptionLetters(question)
    /\ UNCHANGED <<optionClass, answerShown, buttonText>>
    /\ QuizFrame("DOMContentLoaded", <<>>)

\* a click on the show-answer button: its onclick calls toggleAnswer
CallToggleAnswer ==
    /\ question.showAnswerBtn
    /\ PutQuiz(ToggleAnswer(Quiz))
    /\ UNCHANGED <<quizReady, correctAnswer, optionLetter>>
    /\ QuizFrame("toggleAnswer", <<>>)

\* a click on an option; the event is kept with the classes its target had
ClickOption ==
    /\ quizReady
    /\ \E i \in 1..Len(question.options) :
          /\ PutQuiz(OptionClick(Quiz, i, question, optionLetter, correctAnswer))
          /\ QuizFrame("clickOption", <<i, optionClass[i]>>)
    /\ UNCHANGED <<quizReady, correctAnswer, optionLetter>>

\* the texts an answer box of a question with n options may hold: the label
\* and a letter, apart or not, the letter of an option or of none; a tag
\* between the label and the letter; a digit for a letter
AnswerTexts(n) ==
    {<<AnswerLabel, " ", LetterNames[i]>> : i \in 1..(n + 1)}
      \cup {<<AnswerLabel, LetterNames[1]>>,
            <<AnswerLabel, "</strong>", " ", LetterNames[2]>>,
            <<"1", AnswerLabel, " ", " ", "1", LetterNames[1]>>}

\* the questions of the deck: options lettered from alef on, an answer box
\* or none, and a show-answer button right before the box or none
Questions ==
    UNION {{[options |-> [i \in 1..n |-> <<" ", LetterNames[i], " ">>],
             answerBox |-> TRUE, answerText |-> text, showAnswerBtn |-> btn] :
               btn \in BOOLEAN, text \in AnswerTexts(n)}
             \cup {[options |-> [i \in 1..n |-> <<" ", LetterNames[i], " ">>],
                    answerBox |-> FALSE, answerText |-> <<>>,
                    showAnswerBtn |-> FALSE]} : n \in 2..MaxOptions}

InitQuiz ==
    /\ canvasEl = TRUE
    /\ flowchartEl = TRUE
    /\ ctorArg = "undefined"
    /\ absent = {}
    /\ layout = PageLayout(0)
    /\ dpr = <<1, 1>>
    /\ theme = "light"
    /\ StartConnector
    /\ nSlides = 1
    /\ rtlMode = FALSE
    /\ savedMode = "light"
    /\ active = {0}
    /\ navControls = FALSE
    /\ isTouchDevice = FALSE
    /\ question \in Questions
    /\ StartScript

NextQuiz ==
    \/ InitializeApp
    \/ DomContentLoaded
    \/ CallToggleAnswer
    \/ ClickOption

SpecQuiz == InitQuiz /\ [][NextQuiz]_vars

-----------------------------------------------------------------------------
(* What the properties below speak of *)

Live == status = "live"

\* a drawConnections pass has just run
Drew == Live /\ op \in {"construct", "timer", "drawConnections"}

\* resizeCanvas has just run (a pass ends with a redraw, which resizes nothing)
Resized == Live /\ op \in {"construct", "timer", "resizeCanvas"}

\* the connections the latest pass drew, as table entries
Drawn == [i \in DOMAIN calls |-> Conn(calls[i].from, calls[i].to, calls[i].token)]

Present(conn) == conn.from \notin absent /\ conn.to \notin absent

Entries(table) == {table[i] : i \in DOMAIN table}

\* the pixels the latest pass's arrows fall on
PixelsOfCalls ==
    {p \in {DevicePixel(ctx.scale, Marks(calls[i].arrow)[k].x, Marks(calls[i].arrow)[k].y) :
                i \in DOMAIN calls, k \in 1..3} : InBitmap(canvas, p)}

\* the bitmap a pass leaves when it starts from a blank one
FreshPixels ==
    Paint([canvas |-> [canvas EXCEPT !.pixels = NoPixels], ctx |-> ctx, calls |-> <<>>],
          calls).canvas.pixels

Untouched ==
    /\ canvas = [width |-> 300, height |-> 150, styleWidth |-> <<>>,
                 styleHeight |-> <<>>, pixels |-> NoPixels]
    /\ calls = <<>>
    /\ timers = {}

Fractional(n, q) == (n * q[1]) % q[2] # 0

-----------------------------------------------------------------------------
(* C1 -- Debounce collapsing.  Once a burst of resize events has begun,     *)
(* no pass has run while a timer is pending, and exactly one pass has run   *)
(* when none is; a pass runs only when the timer set by the latest event    *)
(* has aged the full delay, so never while events keep arriving sooner.     *)
C1_DebounceCollapsing ==
    /\ [](Live => IF burst = 0 THEN timers = {} /\ passes = 0
                  ELSE IF timers # {} THEN passes = 0 ELSE passes = 1)
    /\ [][passes' > passes =>
             \E t \in timers : /\ t.id = resizeTimeout
                               /\ t.age >= DebounceMs
                               /\ timers' = {}]_vars

\* a burst of several events has ended in its one pass
C1_Witness == Live /\ burst >= 2 /\ passes = 1 /\ timers = {} /\ op = "timer"

(* C2 -- Binding failure.  With the canvas or the container element         *)
(* missing, construction raises nothing and the renderer is inert: nothing  *)
(* is resized or drawn and no timer is ever set.                            *)
C2_BindingFailureSilent ==
    (status # "unbuilt" /\ (~canvasEl \/ ~flowchartEl)) =>
        (status = "inert" /\ Untouched)

(* C3 -- Missing-endpoint skip.  A pass draws exactly the table's           *)
(* connections whose two elements are present, in table order, paints       *)
(* nothing for the others, and runs to its end.                             *)
C3_MissingEndpointSkip ==
    Drew => /\ Drawn = SelectSeq(ConnectionsFor(connectionType), Present)
            /\ DOMAIN canvas.pixels = PixelsOfCalls

\* a pass skipped one connection for its source and one for its target,
\* and drew a connection that follows them in the table
C3_Witness ==
    LET table == ConnectionsFor(connectionType)
    IN  /\ Drew /\ op = "drawConnections"
        /\ \E i, j, k \in DOMAIN table :
              /\ i < k /\ j < k
              /\ table[i].from \in absent
              /\ table[j].from \notin absent /\ table[j].to \in absent
              /\ table[k] \in Entries(Drawn)

(* C4 -- Variant isolation.  With every element present, 'hachzarah' draws  *)
(* exactly its 12 connections and none of the default's, and 'default'      *)
(* draws exactly its 6 connections and none of the alternate's.             *)
C4_VariantIsolation ==
    (Drew /\ absent = {}) =>
        /\ connectionType = "hachzarah" =>
              /\ Drawn = HachzarahConnections
              /\ Len(calls) = 12
              /\ Entries(Drawn) \cap Entries(DefaultConnections) = {}
        /\ connectionType = "default" =>
              /\ Drawn = DefaultConnections
              /\ Len(calls) = 6
              /\ Entries(Drawn) \cap Entries(HachzarahConnections) = {}

C4_Witness == Drew /\ absent = {} /\ connectionType = "default" /\ Len(calls) = 6

\* C4 as first stated: the default variant draws exactly 3 connections
C4_DefaultDrawsThree ==
    (Drew /\ absent = {}) =>
        /\ connectionType = "hachzarah" => Len(calls) = 12
        /\ connectionType = "default" => Len(calls) = 3

(* C5 -- Variant fallback.  Built with any connectionType but 'hachzarah',  *)
(* the argument left out included, a pass makes the very drawArrow calls    *)
(* that connectionType 'default' makes: same connections, order and tokens. *)
C5_VariantFallback ==
    (Drew /\ ctorArg # "hachzarah") =>
        calls = ForEach(ConnectionsFor("default"), layout, absent, theme)

C5_Witness == Drew /\ ctorArg = "other" /\ connectionType = "other" /\ Len(calls) = 6

(* C6 -- Resize scaling.  After resizeCanvas the bitmap is                  *)
(* floor(w * r) x floor(h * r) and the display size is w x h CSS pixels,    *)
(* r being 1 when the device pixel ratio is unavailable.                    *)
C6_ResizeScaling ==
    (Resized /\ inSync) =>
        LET rect == ContainerRect(layout)
            r == IF dpr = <<0, 1>> THEN <<1, 1>> ELSE dpr
        IN  /\ canvas.width = (rect.width * r[1]) \div r[2]
            /\ canvas.height = (rect.height * r[1]) \div r[2]
            /\ canvas.styleWidth = <<rect.width, "px">>
            /\ canvas.styleHeight = <<rect.height, "px">>

\* resizeCanvas ran where w * r is no whole number
C6_Witness ==
    /\ Resized /\ inSync /\ op = "resizeCanvas"
    /\ Fractional(ContainerRect(layout).width, dpr)
    /\ canvas.width = 187

\* C6 as first stated: the bitmap is ceil(w * r) x ceil(h * r)
C6_ResizeScalingCeil ==
    (Resized /\ inSync) =>
        LET rect == ContainerRect(layout)
            r == IF dpr = <<0, 1>> THEN <<1, 1>> ELSE dpr
        IN  /\ canvas.width = Ceil(rect.width, r)
            /\ canvas.height = Ceil(rect.height, r)
            /\ canvas.styleWidth = <<rect.width, "px">>
            /\ canvas.styleHeight = <<rect.height, "px">>

(* C7 -- Buffer size.  After a successful construction, while neither the   *)
(* container's size nor the device pixel ratio has changed since the latest *)
(* resizeCanvas, the bitmap's dimensions are the container's CSS dimensions *)
(* scaled by the device pixel ratio, in whole pixels.                       *)
C7_BufferInSync ==
    (Live /\ inSync) =>
        LET rect == ContainerRect(layout)
            r == IF dpr = <<0, 1>> THEN <<1, 1>> ELSE dpr
        IN  /\ canvas.width = (rect.width * r[1]) \div r[2]
            /\ canvas.height = (rect.height * r[1]) \div r[2]

\* a debounced pass has brought the bitmap back to a container and a ratio
\* that both changed after construction
C7_Witness ==
    /\ Live /\ inSync /\ op = "timer"
    /\ layout # PageLayout(0) /\ dpr = <<5, 4>>
    /\ canvas.width = 250

\* C7 as first stated: in every state after construction, a pending timer or not
C7_BufferAlwaysScaled ==
    Live =>
        LET rect == ContainerRect(layout)
            r == IF dpr = <<0, 1>> THEN <<1, 1>> ELSE dpr
        IN  /\ canvas.width = (rect.width * r[1]) \div r[2]
            /\ canvas.height = (rect.height * r[1]) \div r[2]

(* C8 -- Resize idempotence.  resizeCanvas called again with the container  *)
(* and the ratio r unchanged leaves the canvas's sizes and the context's    *)
(* state as they were, and the scale in effect is r, however often it ran.  *)
C8_ResizeIdempotent ==
    /\ [](Live /\ inSync => ctx.scale = (IF dpr = <<0, 1>> THEN <<1, 1>> ELSE dpr))
    /\ [][(Live /\ inSync /\ op' = "resizeCanvas") =>
             /\ canvas'.width = canvas.width
             /\ canvas'.height = canvas.height
             /\ canvas'.styleWidth = canvas.styleWidth
             /\ canvas'.styleHeight = canvas.styleHeight
             /\ ctx'.scale = ctx.scale
             /\ ctx'.lineCap = ctx.lineCap
             /\ ctx'.lineJoin = ctx.lineJoin]_vars

\* resizeCanvas ran twice in a row at a ratio other than 1
C8_Witness ==
    Live /\ inSync /\ op = "resizeCanvas" /\ rep >= 2 /\ dpr = <<1, 2>>

(* C9 -- Redraw idempotence.  drawConnections called right after a pass,    *)
(* with nothing changed in between, leaves the bitmap and the calls made    *)
(* as the first pass left them.                                             *)
C9_RedrawIdempotent ==
    [][(Drew /\ op' = "drawConnections") =>
          (canvas'.pixels = canvas.pixels /\ calls' = calls)]_vars

(* C10 -- Full clear.  Whatever scale is in effect, a pass leaves on the    *)
(* bitmap only what it painted itself, connection by connection in table    *)
(* order.                                                                   *)
C10_FullClear ==
    Drew => /\ canvas.pixels = FreshPixels
            /\ Drawn = SelectSeq(ConnectionsFor(connectionType), Present)

(* C11 -- Anchor correctness.  For an element that exists, with box        *)
(* (left, top, width, height) in a container at (cLeft, cTop), the three    *)
(* anchor methods return x = left + width/2 - cLeft, and y = top +          *)
(* height/2 - cTop (center), top + height - cTop (bottom), top - cTop       *)
(* (top); for an id with no element each returns null.                      *)
C11_AnchorCorrectness ==
    returned.method \in {"getElementCenter", "getElementBottom", "getElementTop"} =>
        LET id == returned.args[1]
            v == returned.value
            b == layout.element[id]
            c == layout.container
        IN  IF id \in absent THEN v = Null
            ELSE /\ v # Null
                 /\ v.x[2] > 0 /\ v.y[2] > 0
                 /\ 2 * v.x[1] = v.x[2] * (2 * b.left + b.width - 2 * c.left)
                 /\ 2 * v.y[1] = v.y[2] *
                        (CASE returned.method = "getElementCenter" ->
                                  2 * b.top + b.height - 2 * c.top
                           [] returned.method = "getElementBottom" ->
                                  2 * (b.top + b.height - c.top)
                           [] returned.method = "getElementTop" ->
                                  2 * (b.top - c.top))

\* the bottom anchor of the box {left: 100, top: 50, width: 40, height: 20}
\* in the container at {left: 80, top: 30} came out as {x: 40, y: 40}
C11_Witness ==
    /\ returned.method = "getElementBottom" /\ returned.args = <<"probe">>
    /\ "probe" \notin absent
    /\ layout.element["probe"] = [left |-> 100, top |-> 50, width |-> 40, height |-> 20]
    /\ layout.container.left = 80 /\ layout.container.top = 30
    /\ returned.value = [x |-> <<40, 1>>, y |-> <<40, 1>>]

(* C12 -- Connection endpoints.  Every connection a pass draws has its     *)
(* line stroked from the bottom-center anchor of its from element to the    *)
(* top-center anchor of its to element, and its head's tip is that          *)
(* destination anchor, not the source anchor.                               *)
C12_ConnectionEndpoints ==
    Drew =>
        \A i \in DOMAIN calls :
            LET a == calls[i].arrow
                f == layout.element[calls[i].from]
                t == layout.element[calls[i].to]
                c == layout.container
            IN  /\ 2 * a.fromX[1] = a.fromX[2] * (2 * f.left + f.width - 2 * c.left)
                /\ a.fromY = <<f.top + f.height - c.top, 1>>
                /\ 2 * a.toX[1] = a.toX[2] * (2 * t.left + t.width - 2 * c.left)
                /\ a.toY = <<t.top - c.top, 1>>
                /\ a.tip = <<a.toX, a.toY>>
                /\ a.tip # <<a.fromX, a.fromY>>

\* after a change of layout a pass drew question1 -> q1-yes from (12, 30),
\* under the question, to (6, 70), on top of the answer
C12_Witness ==
    /\ Drew /\ op = "drawConnections" /\ layout = PageLayout(1)
    /\ Len(calls) = 6
    /\ calls[1].from = "question1" /\ calls[1].to = "q1-yes"
    /\ calls[1].arrow.fromX = <<12, 1>> /\ calls[1].arrow.fromY = <<30, 1>>
    /\ calls[1].arrow.tip = << <<6, 1>>, <<70, 1>> >>

(* C13 -- Live color resolution.  Whatever theme changes came before it,   *)
(* a pass gives every arrow with a symbolic token the value its variable    *)
(* has when the pass runs, as stroke and as fill, and that value is the     *)
(* paint on top wherever the pass painted; the renderer is the one built    *)
(* at the start.                                                            *)
C13_LiveColorResolution ==
    Drew =>
        LET Current(token) ==
                IF Head(token) = "var("
                THEN IF theme = "unstyled" THEN <<>>
                     ELSE <<token[2] \o "@" \o theme>>
                ELSE token
        IN  /\ \A i \in DOMAIN calls :
                  /\ calls[i].arrow.strokeStyle = Current(calls[i].token)
                  /\ calls[i].arrow.fillStyle = Current(calls[i].token)
            /\ \A p \in PixelsOfCalls :
                  \E i \in DOMAIN calls :
                      canvas.pixels[p][Len(canvas.pixels[p])] = Current(calls[i].token)

\* a renderer built under the light theme redrew under the dark one
C13_Witness ==
    /\ Drew /\ op = "drawConnections" /\ theme = "dark"
    /\ lineColor = <<"--primary-color@light">>
    /\ Len(calls) = 6
    /\ calls[1].token = Gradient
    /\ calls[1].arrow.strokeStyle = <<"--category-gradient-start@dark">>

(* C14 -- Color-token failure.  resolveColor returns a literal token       *)
(* unchanged and, for a token that starts with 'var(' and whose variable    *)
(* has no registered value, the empty string; it raises for no token.  A    *)
(* drawConnection with any token paints its arrow, and a pass paints every  *)
(* connection whose elements are present; neither raises.                   *)
C14_ColorTokenFailure ==
    /\ op = "resolveColor" =>
          LET color == returned.args[1]
              Unregistered == \/ theme = "unstyled"
                              \/ Len(color) < 2
                              \/ color[2] \notin StyleVariables
          IN  /\ ~returned.value.raised
              /\ Head(color) # "var(" => returned.value.value = color
              /\ (Head(color) = "var(" /\ Unregistered) => returned.value.value = <<>>
    /\ op = "drawConnection" =>
          /\ Len(returned.value) = 1
          /\ ~returned.value[1].arrow.raised
    /\ Drew =>
          /\ Drawn = SelectSeq(ConnectionsFor(connectionType), Present)
          /\ \A i \in DOMAIN calls : ~calls[i].arrow.raised

(* C15 -- Single pending timer.  A connector never has more than one       *)
(* resize timer pending, and the one pending is the one its latest resize   *)
(* event set; an event that finds a timer pending removes it and sets a new *)
(* one with its full 100 ms to run, so only the latest timer can fire.      *)
C15_SinglePendingTimer ==
    /\ [](Live => /\ Cardinality(timers) <= 1
                  /\ \A t \in timers : t.id = resizeTimeout)
    /\ [][(Live /\ op' = "event") =>
             /\ timers' = {[id |-> resizeTimeout', age |-> 0]}
             /\ \A t \in timers : t \notin timers' /\ t.id # resizeTimeout']_vars
    /\ [][(Live /\ op' = "timer") =>
             \E t \in timers : /\ t.id = resizeTimeout
                               /\ t.age = DebounceMs
                               /\ timers' = timers \ {t}]_vars

\* a resize event arrived while the timer of the event before it was
\* halfway through its delay, and replaced it
C15_Witness ==
    /\ Live /\ op = "event" /\ burst >= 2
    /\ timers = {[id |-> resizeTimeout, age |-> 0]}

(* C16 -- Navigation hide timer.  Once showNavigation() has run, and until  *)
(* hideNavigation() is called again, no hide timer set earlier fires: the  *)
(* navigation controls keep the class visible, whatever mousemove,          *)
(* touchstart, mouseenter, mouseleave and click events came before,         *)
(* several hideNavigation() calls in a row included.                        *)
C16_NavigationHideTimer ==
    (navReady /\ navControls /\ shown) => navVisible

(* C17 -- Slide index range.  Once initializeApp has run on a deck of at   *)
(* least one slide, currentSlide is a whole number from 0 to                *)
(* totalSlides - 1 after every call, key, swipe and click.                  *)
C17_SlideIndexRange ==
    slides => /\ totalSlides = <<nSlides>>
              /\ currentSlide \in 0..(nSlides - 1)

\* goToSlide was asked for a slide number below 1 and the deck stayed on its
\* last slide
C17_Witness ==
    /\ slides /\ nSlides = 3 /\ currentSlide = 2
    /\ op = "goToSlide" /\ input[1] < 0

(* C18 -- Single active slide.  Once initializeApp has run, exactly one     *)
(* slide is marked active, the one at currentSlide; the number shown is     *)
(* currentSlide + 1; the previous button is disabled exactly on the first   *)
(* slide and the next button exactly on the last.                           *)
C18_SingleActiveSlide ==
    slides => /\ active = {currentSlide}
              /\ currentSlideText = currentSlide + 1
              /\ prevDisabled <=> (currentSlide = 0)
              /\ nextDisabled <=> (currentSlide = nSlides - 1)

\* the deck moved back to the middle one of three slides
C18_Witness ==
    /\ slides /\ nSlides = 3 /\ op = "previousSlide"
    /\ currentSlide = 1 /\ active = {1} /\ currentSlideText = 2
    /\ ~prevDisabled /\ ~nextDisabled

(* C19 -- No wrap-around.  nextSlide on the last slide, previousSlide on    *)
(* the first and goToSlide(n) with n < 1 or n > totalSlides change neither  *)
(* currentSlide nor the active slide nor the buttons; goToSlide(n) with     *)
(* 1 <= n <= totalSlides makes currentSlide n - 1.                          *)
C19_NoWrapAround ==
    [][slides =>
         LET Same == /\ currentSlide' = currentSlide
                     /\ active' = active
                     /\ currentSlideText' = currentSlideText
                     /\ prevDisabled' = prevDisabled
                     /\ nextDisabled' = nextDisabled
         IN  /\ (op' = "nextSlide" /\ currentSlide = nSlides - 1) => Same
             /\ (op' = "previousSlide" /\ currentSlide = 0) => Same
             /\ op' = "goToSlide" =>
                    IF input'[1] < 1 \/ input'[1] > nSlides THEN Same
                    ELSE currentSlide' = input'[1] - 1]_vars

\* nextSlide was called on the last of three slides
C19_Witness ==
    /\ slides /\ nSlides = 3 /\ op = "nextSlide"
    /\ currentSlide = 2 /\ active = {2} /\ nextDisabled

(* C20 -- Swipe navigation.  A touch that ends navigates only if its        *)
(* horizontal displacement is larger in size than its vertical one and      *)
(* than 80; then a right-to-left page calls nextSlide for a swipe to the    *)
(* right and previousSlide for one to the left, and a left-to-right page    *)
(* the other way round.  Any other touch calls neither and leaves           *)
(* currentSlide as it was.                                                  *)
C20_SwipeNavigation ==
    [][/\ op' = "touchstart" => (called' = <<>> /\ currentSlide' = currentSlide)
       /\ op' = "touchend" =>
             LET h == touchEndX' - touchStartX'
                 v == touchEndY' - touchStartY'
                 absH == IF h < 0 THEN -h ELSE h
                 absV == IF v < 0 THEN -v ELSE v
                 toNext == IF isRTL THEN h > 0 ELSE h < 0
             IN  IF absH > absV /\ absH > 80
                 THEN /\ called' = <<IF toNext THEN "nextSlide" ELSE "previousSlide">>
                      /\ slides =>
                            currentSlide' =
                                IF toNext
                                THEN (IF currentSlide < nSlides - 1
                                      THEN currentSlide + 1 ELSE currentSlide)
                                ELSE (IF currentSlide > 0
                                      THEN currentSlide - 1 ELSE currentSlide)
                 ELSE called' = <<>> /\ currentSlide' = currentSlide]_vars

\* on a right-to-left page a swipe of 161 to the right, 100 down, moved the
\* deck on to its second slide
C20_Witness ==
    /\ slides /\ isRTL /\ op = "touchend"
    /\ touchEndX - touchStartX = 161 /\ touchEndY - touchStartY = 100
    /\ called = <<"nextSlide">> /\ currentSlide = 1

(* C21 -- Quiz answer invariant.  For a question with an answer box and     *)
(* options of distinct letters, after any clicks on options and any         *)
(* toggleAnswer calls: no option carries both correct and incorrect, and    *)
(* while some option carries incorrect the answer box carries show and the  *)
(* option whose letter is the correct answer carries correct.               *)
C21_QuizAnswerInvariant ==
    LET letter == OptionLetters(question)
        n == Len(question.options)
    IN  (question.answerBox /\ \A i, j \in 1..n : letter[i] = letter[j] => i = j) =>
            /\ \A i \in 1..n : ~({"correct", "incorrect"} \subseteq optionClass[i])
            /\ (\E i \in 1..n : "incorrect" \in optionClass[i]) =>
                  /\ answerShown
                  /\ \A j \in 1..n : letter[j] = CorrectAnswer(question) =>
                                        "correct" \in optionClass[j]

\* a wrong option was clicked: it carries incorrect and the right one
\* correct, the box is shown and the button offers to hide it
C21_Witness ==
    /\ question.answerBox /\ op = "clickOption"
    /\ buttonText = HideAnswerText /\ answerShown
    /\ \E i, j \in 1..Len(question.options) :
          /\ optionClass[i] = {"incorrect"}
          /\ optionClass[j] = {"correct"}
          /\ Trim(question.options[j]) = CorrectAnswer(question)

(* C22 -- Quiz option click is single-shot.  A click on an option that      *)
(* carries correct or incorrect changes no option's classes, nor the class  *)
(* of the answer box, nor the text of the button; a click on an unmarked    *)
(* option whose letter is the correct answer adds correct to it and changes *)
(* nothing else; a click on an unmarked wrong option adds incorrect to it,  *)
(* shows the answer box and marks the correct option correct.               *)
C22_QuizOptionSingleShot ==
    [][op' = "clickOption" =>
         LET i == input'[1]
             letter == OptionLetters(question)
             right == CorrectAnswer(question)
         IN  IF optionClass[i] # {}
               THEN UNCHANGED <<optionClass, answerShown, buttonText>>
             ELSE IF letter[i] = right
               THEN /\ optionClass' = [optionClass EXCEPT ![i] = {"correct"}]
                    /\ UNCHANGED <<answerShown, buttonText>>
               ELSE /\ "incorrect" \in optionClass'[i]
                    /\ \A j \in DOMAIN optionClass :
                          /\ optionClass[j] \subseteq optionClass'[j]
                          /\ letter[j] = right => "correct" \in optionClass'[j]
                          /\ (j # i /\ letter[j] # right) =>
                                optionClass'[j] = optionClass[j]
                    /\ question.answerBox => answerShown']_vars

\* an option that carried incorrect was clicked again, while another option
\* carried correct and a third nothing
C22_Witness ==
    /\ op = "clickOption" /\ answerShown
    /\ input[2] = {"incorrect"}
    /\ optionClass[input[1]] = {"incorrect"}
    /\ \E j \in DOMAIN optionClass : optionClass[j] = {"correct"}
    /\ \E j \in DOMAIN optionClass : optionClass[j] = {}

=============================================================================
